---- MODULE Spec2Model ----
(***************************************************************************)
(* Women-Safety-Ai: the local score / trend / leaderboard functions of     *)
(* frontend/src/data/mockData.ts and the What-If Simulation page, as a     *)
(* state machine.  Numbers of the TypeScript code are IEEE doubles; where  *)
(* the code leaves the integers (the 0.25 / 0.2 / 0.15 weights, the 0.5    *)
(* year factor, Math.sin) the model keeps the exact double values, see     *)
(* the sections "IEEE double arithmetic" and "Math.sin".                   *)
(***************************************************************************)
EXTENDS Integers, Sequences, FiniteSets, TLC

VARIABLES
    INDIAN_STATES,  \* mockData.ts: the module-level array of state names
    YEARS,          \* mockData.ts: the module-level array of years
    CRIME_TYPES,    \* mockData.ts: the module-level array of crime types
    req,            \* the call of a mockData function about to be made
    ret,            \* the last call of a mockData function: what it was given and returned
    log,            \* the calls of one session, in order (SpecSession only)
    crimeValues,    \* Simulation.tsx: useState, the slider values
    result,         \* Simulation.tsx: useState, the displayed result or NULL
    fn,             \* the function of services/api.ts the behaviour calls (SpecApi only)
    hookState,      \* useApi.ts: useState of the hook of fn, {data, loading, error}
    calls,          \* the calls of fn made so far, through the hook or directly
    http,           \* the requests handed to fetch so far, in order
    userName,       \* SOSEmergency.tsx: useState, the "Your Name" field
    area,           \* SOSEmergency.tsx: useState, the "Area / Landmark" field
    mapsLink,       \* SOSEmergency.tsx: useState, the "Google Maps Link" field
    contacts,       \* SOSEmergency.tsx: useState, the trusted contacts
    newName,        \* SOSEmergency.tsx: useState, the name of the contact to add
    newPhone,       \* SOSEmergency.tsx: useState, the phone of the contact to add
    now             \* the last value Date.now() returned

refdata == <<INDIAN_STATES, YEARS, CRIME_TYPES>>
page == <<crimeValues, result>>
api == <<fn, hookState, calls, http>>
sos == <<userName, area, mapsLink, contacts, newName, newPhone, now>>
vars ==
    <<INDIAN_STATES, YEARS, CRIME_TYPES, req, ret, log, crimeValues, result,
      fn, hookState, calls, http,
      userName, area, mapsLink, contacts, newName, newPhone, now>>

\* null: a value of its own, comparable with every record
NULL == [null |-> TRUE]

\* A call of a function of mockData.ts: the function and its arguments.
Request(op, args) == [op |-> op, args |-> args]

-----------------------------------------------------------------------------
(* Bounds of the model.                                                    *)

\* getSafetyRecommendations is applied to every integer score of
\* (0 - ScoreMargin) .. (100 + ScoreMargin).
ScoreMargin == 10

\* A session (SpecSession) makes at most MaxCalls calls.
MaxCalls == 3

\* At most MaxApiCalls calls of an API function are made (SpecApi).
MaxApiCalls == 2

\* The contact list of the SOS page holds at most MaxContacts contacts, and
\* the clock is read at values up to MaxContacts (SpecSos).
MaxContacts == 2

-----------------------------------------------------------------------------
(* JavaScript arithmetic on integers.                                      *)

Min(a, b) == IF a <= b THEN a ELSE b

Max(a, b) == IF a >= b THEN a ELSE b

\* a % b of JavaScript, b > 0: the remainder has the sign of the dividend.
JsRem(a, b) == IF a >= 0 THEN a % b ELSE 0 - ((0 - a) % b)

\* Math.round(n / d) for integers n and d > 0: the nearest integer, a tie
\* going up (towards +Infinity).  n / d is not exact in doubles, but its
\* rounding error is far below the distance of a non-tie quotient to a tie.
MathRoundDiv(n, d) == (2 * n + d) \div (2 * d)

-----------------------------------------------------------------------------
(* Reference data.                                                         *)

InitialStates ==
    << "Andhra Pradesh", "Arunachal Pradesh", "Assam", "Bihar", "Chhattisgarh",
       "Goa", "Gujarat", "Haryana", "Himachal Pradesh", "Jharkhand",
       "Karnataka", "Kerala", "Madhya Pradesh", "Maharashtra", "Manipur",
       "Meghalaya", "Mizoram", "Nagaland", "Odisha", "Punjab",
       "Rajasthan", "Sikkim", "Tamil Nadu", "Telangana", "Tripura",
       "Uttar Pradesh", "Uttarakhand", "West Bengal", "Delhi" >>

\* Array.from({ length: 21 }, (_, i) => 2001 + i)
InitialYears == [i \in 1..21 |-> 2001 + (i - 1)]

InitialCrimeTypes ==
    << "Rape", "Assault on Women", "Kidnapping & Abduction",
       "Domestic Violence", "Women Trafficking" >>

Range(s) == {s[i] : i \in DOMAIN s}

-----------------------------------------------------------------------------
(* calculateSafetyScore, getSafetyRecommendations.                         *)

\* Mutant: the thresholds compared with > instead of >=.
calculateSafetyScoreShifted(state, year) ==
    LET seed == Len(state) * year
        baseScore == 40 + JsRem(seed, 50)
        score == Min(100, Max(0, MathRoundDiv(2 * baseScore + (year - 2001), 2)))
        riskLevel == IF score > 70 THEN "Low"
                     ELSE IF score > 40 THEN "Medium" ELSE "High"
    IN  [score |-> score, riskLevel |-> riskLevel]

\* Mutant: the sum is truncated, not rounded.
calculateSafetyScoreTruncated(state, year) ==
    LET seed == Len(state) * year
        baseScore == 40 + JsRem(seed, 50)
        score == Min(100, Max(0, (2 * baseScore + (year - 2001)) \div 2))
        riskLevel == IF score >= 70 THEN "Low"
                     ELSE IF score >= 40 THEN "Medium" ELSE "High"
    IN  [score |-> score, riskLevel |-> riskLevel]

\* Mutant: the risk level taken from baseScore, before the year factor.
calculateSafetyScoreRiskOfBase(state, year) ==
    LET seed == Len(state) * year
        baseScore == 40 + JsRem(seed, 50)
        score == Min(100, Max(0, MathRoundDiv(2 * baseScore + (year - 2001), 2)))
        riskLevel == IF baseScore >= 70 THEN "Low"
                     ELSE IF baseScore >= 40 THEN "Medium" ELSE "High"
    IN  [score |-> score, riskLevel |-> riskLevel]

\* Mutant: hidden state, the seed counts the calls made so far.
calculateSafetyScoreCounting(state, year) ==
    LET seed == Len(state) * year + Len(log)
        baseScore == 40 + JsRem(seed, 50)
        score == Min(100, Max(0, MathRoundDiv(2 * baseScore + (year - 2001), 2)))
        riskLevel == IF score >= 70 THEN "Low"
                     ELSE IF score >= 40 THEN "Medium" ELSE "High"
    IN  [score |-> score, riskLevel |-> riskLevel]

\* yearFactor = (year - 2001) * 0.5 is a multiple of one half, exact in a
\* double: baseScore + yearFactor = (2 * baseScore + (year - 2001)) / 2.
calculateSafetyScore(state, year) ==
    LET seed == Len(state) * year
        baseScore == 40 + JsRem(seed, 50)
        score == Min(100, Max(0, MathRoundDiv(2 * baseScore + (year - 2001), 2)))
        riskLevel == IF score >= 70 THEN "Low"
                     ELSE IF score >= 40 THEN "Medium" ELSE "High"
    IN  [score |-> score, riskLevel |-> riskLevel]

\* The tips are fixed texts, one list per branch; the model keeps their number.
getSafetyRecommendations(score) ==
    IF score >= 70 THEN [riskLevel |-> "Low", tips |-> 5]
    ELSE IF score >= 40 THEN [riskLevel |-> "Medium", tips |-> 7]
    ELSE [riskLevel |-> "High", tips |-> 9]

-----------------------------------------------------------------------------
(* IEEE double arithmetic of simulateSafetyScore.                          *)
(*                                                                         *)
(* Every double of that computation is  k/20 + e * u  with integers k, e   *)
(* and u = 2^-55 / 5: 0.25 is exact (k = 5, e = 0), the double nearest to  *)
(* 0.2 is 0.2 + 0.4 * 2^-55 (k = 4, e = 2) and the double nearest to 0.15  *)
(* is 0.15 - 0.2 * 2^-55 (k = 3, e = -1).  In units of u the value is the  *)
(* integer k * 2^53 + e.  A double in [2^b, 2^(b+1)) is a multiple of      *)
(* 2^(b-52) = 2^j * 2^-55 with j = b + 3, that is of 5 * 2^j units; each   *)
(* product, sum and difference is rounded to the nearest such multiple,    *)
(* a tie going to the even one.                                            *)

Dbl(k, e) == [k |-> k, e |-> e]

RECURSIVE Pow2(_)
Pow2(n) == IF n = 0 THEN 1 ELSE 2 * Pow2(n - 1)

\* 2^n mod 5, n >= 0
Pow2Mod5(n) == <<1, 2, 4, 3>>[(n % 4) + 1]

\* j of a positive value k/20 + e*u >= 0.125
RECURSIVE UlpExp(_, _, _)
UlpExp(k, e, j) ==
    IF 2 * k > 5 * Pow2(j + 1) \/ (2 * k = 5 * Pow2(j + 1) /\ e >= 0)
    THEN UlpExp(k, e, j + 1)
    ELSE j

\* round-to-nearest-even of a positive value
DblRoundPos(k, e) ==
    LET j == UlpExp(k, e, 0)
        G == 5 * Pow2(j)
        \* (k * 2^53 + e) mod G and mod 2G
        r == (Pow2(j) * (((k % 5) * Pow2Mod5(53 - j)) % 5) + e) % G
        r2 == (Pow2(j + 1) * (((k % 5) * Pow2Mod5(52 - j)) % 5) + e) % (2 * G)
        odd == r2 >= G
    IN  IF 2 * r < G \/ (2 * r = G /\ ~odd)
        THEN Dbl(k, e - r)
        ELSE Dbl(k, e - r + G)

DblRound(k, e) ==
    IF k = 0 /\ e = 0 THEN Dbl(0, 0)
    ELSE IF k < 0 \/ (k = 0 /\ e < 0)
    THEN LET p == DblRoundPos(0 - k, 0 - e) IN Dbl(0 - p.k, 0 - p.e)
    ELSE DblRoundPos(k, e)

\* value * weight, value a non-negative integer
DblMul(value, w) == DblRound(value * w.k, value * w.e)

DblAdd(a, b) == DblRound(a.k + b.k, a.e + b.e)

\* n - a, n an integer
DblSubFrom(n, a) == DblRound(20 * n - a.k, 0 - a.e)

\* Math.round(d): floor(d + 0.5), computed exactly
MathRound(d) ==
    LET s == (d.k + 10) \div 20
    IN  IF (d.k + 10) % 20 = 0 /\ d.e < 0 THEN s - 1 ELSE s

-----------------------------------------------------------------------------
(* simulateSafetyScore.                                                    *)

weights ==
    [c \in Range(InitialCrimeTypes) |->
        CASE c = "Rape" -> Dbl(5, 0)
          [] c = "Assault on Women" -> Dbl(4, 2)
          [] c = "Kidnapping & Abduction" -> Dbl(4, 2)
          [] c = "Domestic Violence" -> Dbl(4, 2)
          [] c = "Women Trafficking" -> Dbl(3, -1)]

interpretations ==
    [r \in {"Low", "Medium", "High"} |->
        CASE r = "Low" -> "The projected safety level is favorable. Standard precautions are sufficient."
          [] r = "Medium" -> "Moderate risk detected. Enhanced awareness and safety protocols recommended."
          [] r = "High" -> "Elevated risk scenario. Immediate safety measures and emergency contacts should be readily available."]

\* Object.entries(crimeValues): the keys in insertion order, which for the
\* record of the Simulation page is the key order of DEFAULT_VALUES (kept by
\* the spread in handleSliderChange).
ObjectEntries(values) ==
    [i \in 1..Len(InitialCrimeTypes) |->
        <<InitialCrimeTypes[i], values[InitialCrimeTypes[i]]>>]

\* entries.reduce((acc, [crime, value]) => acc + value * weights[crime], 0)
RECURSIVE WeightedSum(_, _)
WeightedSum(entries, acc) ==
    IF entries = <<>> THEN acc
    ELSE WeightedSum(Tail(entries),
                     DblAdd(acc, DblMul(Head(entries)[2], weights[Head(entries)[1]])))

simulateSafetyScore(values) ==
    LET weightedSum == WeightedSum(ObjectEntries(values), Dbl(0, 0))
        score == MathRound(DblSubFrom(100, weightedSum))
        riskLevel == IF score >= 70 THEN "Low"
                     ELSE IF score >= 40 THEN "Medium" ELSE "High"
    IN  [score |-> score, riskLevel |-> riskLevel,
         interpretation |-> interpretations[riskLevel]]

-----------------------------------------------------------------------------
(* Math.sin.                                                               *)
(*                                                                         *)
(* getCrimeTrendData uses Math.sin(index * 0.3) * 200 and                  *)
(* Math.sin(seed * year) * 100.  Both are tabulated in millionths, rounded *)
(* to the nearest: the first for index 0..20, the second for seed 4..42    *)
(* and year 2001..2021.  For every entry the double                        *)
(* baseCount + trend + noise + growth is at least 0.00013 away from a tie  *)
(* of Math.round, so the tables decide the rounded count.                  *)

SinIndexTimes200Micro ==
    <<
       0, 59104041, 112928495, 156665382, 186407817, 199498997, 194769526,
       172641873, 135092636, 85475976, 28224002, -31549139, -88504089,
       -137553232, -174315154, -195506024, -199232922, -185162936,
       -154552898, -110137109, -55883100 >>

SinSeedYearTimes100Micro ==
    <<
       \* seed = 4
       <<
          -70191413, -8023965, 80681040, -97449329, 46713225, 36381726,
          -94274591, 86862244, -19279313, -61658645, 99884872, -68919574,
          -9787192, 81714246, -97036799, 45140723, 38024907, -94850199,
          85971548, -17539309, -63042633 >>,
       \* seed = 5
       <<
          82635365, 77442495, -38700350, -99398147, -17690641, 89361815,
          68387777, -50563763, -97073832, -4508588, 94516000, 58129818,
          -61537538, -93041563, 8752791, 98007235, 46849101, -71428598,
          -87372286, 21860171, 99774093 >>,
       \* seed = 6
       <<
          -91962394, -99274998, -98679412, -90223082, -74579632, -52995211,
          -27189223, 782644, 28692165, 54316085, 75613217, 90887044,
          98920860, 99074698, 91336302, 76322108, 55228139, 29734729,
          1872666, -26138571, -52067626 >>,
       \* seed = 7
       <<
          97820693, 60106072, -7192487, -70950936, -99787654, -79509339,
          -20096885, 49207164, 94291670, 92966240, 45883247, -23783274,
          -81743775, -99470358, -68238079, -3419326, 63082404, 98535260,
          85489504, 30366200, -39703210 >>,
       \* seed = 8
       <<
          -99989293, 15996184, 95334402, -43738502, -82606495, 67776998,
          62883384, -86076067, -37835243, 97086125, 9583174, -99874829,
          19480408, 94206029, -46894369, -80559765, 70337266, 60091616,
          -87823930, -34534846, 97873573 >>,
       \* seed = 9
       <<
          98386397, -82269278, 51529660, -11631188, -30334606, 66908742,
          -91590554, 99993109, -90622941, 65145499, -28089130, -13959787,
          53527498, -83581259, 98779332, -96420417, 76923789, -43754766,
          2808794, 38636411, -73214401 >>,
       \* seed = 10
       <<
          -93072464, 97990434, -71369502, 21777800, 34823237, -80216174,
          99790979, -87247364, 46622579, 9008006, -61739302, 94599375,
          -97011983, 68200610, -17438398, -38936484, 82779388, -99979172,
          84999965, -42662929, -13405467 >>,
       \* seed = 11
       <<
          84247931, -53499486, -84721476, 52749583, 85188384, -51995547,
          -85648617, 51237437, 86102140, -50475313, -86548917, 49709234,
          86988913, -48939261, -87422094, 48165453, 87848425, -47387872,
          -88267874, 46606578, 88680407 >>,
       \* seed = 12
       <<
          -72245650, -23865248, 31968082, 77818034, 99366029, 89882801,
          52329885, -1565239, -54971552, -91210684, -98965442, -75814075,
          -28986574, 26893206, 74374450, 98629142, 92082734, 56779617,
          3744676, -50459698, -88905908 >>,
       \* seed = 13
       <<
          57518336, 86565522, 99588873, 94177683, 71333597, 35285203,
          -7294709, -48524323, -80771773, -98067848, -97210933, -78359648,
          -45003488, -3316893, 38983680, 74068124, 95442081, 99149094,
          84502972, 54214806, 13891130 >>,
       \* seed = 14
       <<
          -40621487, -96073949, 14347718, 99997683, 12999092, -96442764,
          -39373723, 85675057, 62803661, -68499861, -81536622, 46201680,
          94171600, -20448154, -99763648, -6834653, 97894545, 33606308,
          -88704079, -57864606, 72879588 >>,
       \* seed = 15
       <<
          22192436, 46547893, -92916180, 94626704, -50857347, -17355281,
          77226541, -99980859, 74681959, -13489104, -54186940, 95819431,
          -91398787, 43049676, 25990149, -82538481, 99416823, -68513037,
          4680229, 61402010, -97972959 >>,
       \* seed = 16
       <<
          -2926309, 31580409, -57560248, 78665825, -93109898, 99669329,
          -97788657, 87627139, -70045265, 46531885, -19078136, -9991169,
          38214411, -63201618, 82836845, -95457363, 99994452, -96063907,
          83998570, -64820147, 40152687 >>,
       \* seed = 17
       <<
          -16450196, -90303523, 66146634, 53901266, -95809938, -1174501,
          96456298, -51907972, -67889956, 89269626, 18762499, -99595130,
          36047358, 79757307, -79939931, -35764231, 99621942, -19060381,
          -89132505, 68112377, 51648447 >>,
       \* seed = 18
       <<
          35206216, 93537903, 88323065, 23104488, -57810506, -99450974,
          -73527774, 2347739, 76628277, 98850123, 53916500, -27646192,
          -90426985, -91774706, -30773758, 51133852, 98302832, 78688153,
          5615372, -71272305, -99739960 >>,
       \* seed = 19
       <<
          -52634292, -39296122, -25070223, -10277969, 4746473, 19663688,
          34136686, 47838510, 60459625, 71714911, 81350103, 89147533,
          94931053, 98570008, 99982191, 99135700, 96049658, 90793781,
          83486803, 74293794, 63422432 >>,
       \* seed = 20
       <<
          68077056, -39091915, -99982474, -42510193, 65287180, 95795247,
          12897464, -85268800, -82490799, 17942769, 97135043, 61335369,
          -47075316, -99756553, -34342404, 71727515, 92883828, 4080933,
          -89553117, -77170974, 26568936 >>,
       \* seed = 21
       <<
          -80952021, 93459175, -21428629, -69985001, 98094294, -37473230,
          -57043926, 99962484, -52460829, -42493822, 99011048, -65968675,
          -26745101, 95266824, -77615753, -10241986, 88835424, -87073536,
          6550023, 79898258, -94075250 >>,
       \* seed = 22
       <<
          90773556, -90398650, 90016661, -89627620, 89231557, -88828502,
          88418489, -88001547, 87577712, -87147014, 86709489, -86265171,
          85814094, -85356293, 84891805, -84420666, 83942913, -83458584,
          82967715, -82470346, 81966516 >>,
       \* seed = 23
       <<
          -97171204, 31790939, 63292680, -99239799, 42463803, 53987566,
          -99996519, 52575328, 43968776, -99431360, 61991848, 33368754,
          -97551795, 70588882, 22327621, -94382669, 78252784, 10991334,
          -89965876, 84882245, -490249 >>,
       \* seed = 24
       <<
          99903651, 46351325, -60581133, -97745815, -22342312, 78791535,
          89185743, -3130095, -91841184, -74784109, 28397486, 98875344,
          55484205, -51804874, -99433285, -32550150, 71819104, 93478463,
          7484099, -87129267, -81400911 >>,
       \* seed = 25
       <<
          -98867832, -96012127, -91467149, -85312864, -77657551, -68635903,
          -58406649, -47149766, -35063312, -22359941, -9263162, 3996598,
          17186040, 30073104, 42431051, 54042449, 64703005, 74225152,
          82441353, 89207050, 94403205 >>,
       \* seed = 26
       <<
          94102817, 86676434, 18042503, -63332347, -99984341, -66031257,
          14550548, 84857319, 95241130, 38369336, -45597401, -97365015,
          -80377218, -6630136, 71798892, 99526317, 56972103, -25813608,
          -90370747, -91111557, -27512906 >>,
       \* seed = 27
       <<
          -85788338, -24080742, 99858177, -34264156, -79838398, 80911944,
          32563360, -99937986, 25828169, 84847165, -75402469, -40791191,
          99235848, -17190094, -89192061, 69303019, 48699858, -97757256,
          8417519, 92839088, -62661320 >>,
       \* seed = 28
       <<
          74238009, -53311825, 28398542, -1361381, -25777595, 50988709,
          -72386466, 88370565, -97745582, 99810377, -94410526, 81949876,
          -63360336, 40032187, -13710100, -13637342, 39964870, -63303496,
          81907762, -94386289, 99805829 >>,
       \* seed = 29
       <<
          -59887495, 97945917, -86650866, 31693749, 39233372, -90391387,
          96002543, -53239464, -16350179, 77701214, -99899776, 71760346,
          -7461958, -60596398, 98121142, -86204120, 30850140, 40048761,
          -90767694, 95750153, -52485552 >>,
       \* seed = 30
       <<
          43278086, -82395260, -68697263, 61201955, 87578243, -34183813,
          -98124049, 3912260, 99330992, 26731639, -91084204, -54831380,
          74168564, 77712598, -50194002, -93197593, 21442275, 99812597,
          9350201, -96928033, -39252780 >>,
       \* seed = 31
       <<
          -25036270, 16215253, 54701828, 83860905, 98720416, 96746587,
          78275987, 46458134, 6718459, -34166816, -69226126, -92481324,
          -99967043, -90406852, -65430912, -29298001, 11830667, 50942025,
          81366990, 97917639, 97771834 >>,
       \* seed = 32
       <<
          5850111, 59928527, 94137443, 97134782, 67926764, 16197406,
          -40902256, -84440640, -99982454, -82374757, -37455439, 19882352,
          70628085, 97956844, 92807690, 56887843, 2106644, -53373019,
          -91156683, -98717049, -73547455 >>,
       \* seed = 33
       <<
          13556708, -99248073, -10921325, 99538073, 8278241, -99757889,
          -5629321, 99907367, 2976431, -99986402, -321443, 99994937,
          -2333772, -99932967, 4987342, 99800536, -7637395, -99597736,
          10282063, 99324712, -12919481 >>,
       \* seed = 34
       <<
          -32452182, 77582735, -99216624, 90801821, -54886828, 2348841,
          50900515, -88734169, 99693841, -80460291, 36858582, 17906098,
          -67247746, 96222779, -96055834, 66797472, -17308864, -37421897,
          80819083, -99739446, 88452775 >>,
       \* seed = 35
       <<
          50123592, -8245196, -35221353, 71903721, -94736310, 99321210,
          -84775296, 53900338, -12643335, -31048971, 68760762, -93228158,
          99738357, -87037394, 57571672, -17016748, -26815867, 65483327,
          -91537678, 99960445, -89129272 >>,
       \* seed = 36
       <<
          -65904390, -66158763, 82836228, 44958704, -94342392, -20813903,
          99669239, -4694184, -98467869, 29894808, 90816969, -53137357,
          -77217664, 72899471, 58560694, -87886756, -36068067, 97117562,
          11213023, -99987282, 14376460 >>,
       \* seed = 37
       <<
          79199340, 99910199, 73746000, 12982251, -53872406, -95451644,
          -92247653, -45763656, 22191362, 79734817, 99868936, 73147358,
          12107095, -54613477, -95710940, -91903520, -44977551, 23050621,
          80264089, 99819903, 72543023 >>,
       \* seed = 38
       <<
          -89506970, -72269895, -48539174, -20447076, 9482247, 38559564,
          64172200, 84018790, 96316063, 99959077, 94620497, 80780009,
          59681218, 33219907, 3773698, -26011588, -53459663, -76104241,
          -91910648, -99458633, -98069991 >>,
       \* seed = 39
       <<
          96438487, 221967, -96320115, -51588123, 68808899, 88282936,
          -21728857, -99870628, -31530737, 83055732, 75823185, -42620299,
          -98551988, -9936083, 93253215, 59666705, -61433805, -92428484,
          12143001, 98904175, 40601198 >>,
       \* seed = 40
       <<
          -99732440, 71962354, 3743575, -76955819, 98905954, -54972472,
          -25579487, 89092338, -93258656, 35303157, 46168619, -96886375,
          83065803, -13913117, -64507429, 99958036, -68824209, -8155067,
          79702058, -98157605, 51228028 >>,
       \* seed = 41
       <<
          99264586, -99928024, 98061140, -93711206, 86988370, -78062862,
          67160689, -54557911, 40573648, -25562001, 9903088, 6006586,
          -21764165, 36970643, -51240971, 64213804, -75560651, 84994193,
          -92275558, 97220374, -99703429 >>,
       \* seed = 42
       <<
          -95052570, 66491001, 41861722, -99979149, 38118661, 69485340,
          -93704892, 5475822, 89324396, -76932715, -27780483, 99156285,
          -51541633, -57924493, 97879526, -20376253, -81579122, 85637155,
          13071914, -96094302, 63800705 >>
    >>

\* Math.sin(index * 0.3) * 200, in millionths
Trend(index) == SinIndexTimes200Micro[index + 1]

\* Math.sin(seed * year) * 100, in millionths
\* (the rows start at seed 4, the columns at year 2001)
Noise(seed, year) == SinSeedYearTimes100Micro[seed - 3][year - 2000]

-----------------------------------------------------------------------------
(* getCrimeTrendData.                                                      *)

\* baseCount and growth are integers, so
\* Math.round(baseCount + trend + noise + growth)
\*     = baseCount + growth + Math.round(trend + noise).
TrendPoint(seed, baseCount, year, index) ==
    LET trend == Trend(index)
        noise == Noise(seed, year)
        growth == index * 15
        count == Max(0, baseCount + growth + MathRoundDiv(trend + noise, 1000000))
    IN  [year |-> year, count |-> count]

\* Mutant: the points without a moving average are dropped from the series.
getCrimeTrendDataFiltered(state, crimeType) ==
    LET seed == Len(state) + Len(crimeType)
        baseCount == 500 + JsRem(seed, 2000)
        data == [i \in 1..Len(YEARS) |-> TrendPoint(seed, baseCount, YEARS[i], i - 1)]
    IN  [i \in 1..(Len(data) - 2) |->
            [year |-> data[i + 2].year, count |-> data[i + 2].count,
             movingAvg |-> MathRoundDiv(data[i + 2].count + data[i + 1].count
                                        + data[i].count, 3)]]

\* Mutant: Math.floor instead of Math.round.
getCrimeTrendDataFloor(state, crimeType) ==
    LET seed == Len(state) + Len(crimeType)
        baseCount == 500 + JsRem(seed, 2000)
        data == [i \in 1..Len(YEARS) |-> TrendPoint(seed, baseCount, YEARS[i], i - 1)]
    IN  [i \in 1..Len(data) |->
            IF i - 1 >= 2
            THEN [year |-> data[i].year, count |-> data[i].count,
                  movingAvg |-> (data[i].count + data[i - 1].count
                                 + data[i - 2].count) \div 3]
            ELSE data[i]]

getCrimeTrendData(state, crimeType) ==
    LET seed == Len(state) + Len(crimeType)
        baseCount == 500 + JsRem(seed, 2000)
        data == [i \in 1..Len(YEARS) |-> TrendPoint(seed, baseCount, YEARS[i], i - 1)]
    IN  [i \in 1..Len(data) |->
            IF i - 1 >= 2
            THEN [year |-> data[i].year, count |-> data[i].count,
                  movingAvg |-> MathRoundDiv(data[i].count + data[i - 1].count
                                             + data[i - 2].count, 3)]
            ELSE data[i]]

-----------------------------------------------------------------------------
(* getLeaderboardData, getNationalAverageScore.                            *)

\* Array.prototype.sort with (a, b) => a.score - b.score: ascending and
\* stable (ECMAScript 2019), elements of equal score keep their order.
\* Mutant: the comparator is b.score - a.score.
RECURSIVE InsertByScoreDescending(_, _)
InsertByScoreDescending(sorted, x) ==
    IF sorted = <<>> THEN <<x>>
    ELSE IF x.score - Head(sorted).score <= 0
    THEN <<Head(sorted)>> \o InsertByScoreDescending(Tail(sorted), x)
    ELSE <<x>> \o sorted

\* Mutant: an unstable sort, an element goes before the elements equal to it.
RECURSIVE InsertByScoreBeforeEqual(_, _)
InsertByScoreBeforeEqual(sorted, x) ==
    IF sorted = <<>> THEN <<x>>
    ELSE IF Head(sorted).score - x.score < 0
    THEN <<Head(sorted)>> \o InsertByScoreBeforeEqual(Tail(sorted), x)
    ELSE <<x>> \o sorted

RECURSIVE InsertByScore(_, _)
InsertByScore(sorted, x) ==
    IF sorted = <<>> THEN <<x>>
    ELSE IF Head(sorted).score - x.score <= 0
    THEN <<Head(sorted)>> \o InsertByScore(Tail(sorted), x)
    ELSE <<x>> \o sorted

RECURSIVE SortByScore(_)
SortByScore(a) ==
    IF a = <<>> THEN <<>>
    ELSE InsertByScore(SortByScore(SubSeq(a, 1, Len(a) - 1)), a[Len(a)])

\* Mutant: the end index of slice taken as inclusive.
Slice0Inclusive(a, n) == SubSeq(a, 1, Min(n + 1, Len(a)))

\* a.slice(0, n)
Slice0(a, n) == SubSeq(a, 1, Min(n, Len(a)))

\* Mutant: no new array, the receiver itself is sorted by score.
ReceiverSortedByScore(array) ==
    LET withScores ==
            [i \in 1..Len(array) |->
                [state |-> array[i],
                 score |-> calculateSafetyScore(array[i], 2021).score]]
        sorted == SortByScore(withScores)
    IN  [i \in 1..Len(array) |-> sorted[i].state]

\* The receiver of array.map(...) once array.map(...) and a sort of its
\* result are done: map returns a new array and sort reorders that one, so
\* the receiver is as it was.
ReceiverAfterMap(array) == array

getLeaderboardData ==
    LET latestYear == 2021
        statesWithScores ==
            [i \in 1..Len(INDIAN_STATES) |->
                LET s == calculateSafetyScore(INDIAN_STATES[i], latestYear)
                IN  [state |-> INDIAN_STATES[i], score |-> s.score,
                     riskLevel |-> s.riskLevel]]
        top == Slice0(SortByScore(statesWithScores), 10)
    IN  [i \in 1..Len(top) |->
            [rank |-> (i - 1) + 1, state |-> top[i].state,
             score |-> top[i].score, riskLevel |-> top[i].riskLevel]]

RECURSIVE SumSeq(_)
SumSeq(a) == IF a = <<>> THEN 0 ELSE Head(a) + SumSeq(Tail(a))

getNationalAverageScore ==
    LET scores == [i \in 1..Len(INDIAN_STATES) |->
                      calculateSafetyScore(INDIAN_STATES[i], 2021).score]
        avgScore == MathRoundDiv(SumSeq(scores), Len(scores))
        riskLevel == IF avgScore >= 70 THEN "Low"
                     ELSE IF avgScore >= 40 THEN "Medium" ELSE "High"
    IN  [score |-> avgScore, riskLevel |-> riskLevel]

-----------------------------------------------------------------------------
(* getHeatmapData and the Heatmap page.                                    *)

\* intensity is held in hundredths: (seed % 100) / 100 is seed % 100
\* hundredths, and Math.round(intensity * 5000 + 500) is 50 per hundredth
\* plus 500 (the double differs from that integer by far less than 0.5).
getHeatmapData(crimeType) ==
    [i \in 1..Len(INDIAN_STATES) |->
        LET seed == Len(INDIAN_STATES[i]) * Len(crimeType)
            intensity == JsRem(seed, 100)
            count == 50 * intensity + 500
        IN  [state |-> INDIAN_STATES[i], intensity |-> intensity,
             count |-> count]]

\* Array.prototype.sort with (a, b) => b.intensity - a.intensity:
\* descending and stable.
RECURSIVE InsertByIntensity(_, _)
InsertByIntensity(sorted, x) ==
    IF sorted = <<>> THEN <<x>>
    ELSE IF x.intensity - Head(sorted).intensity <= 0
    THEN <<Head(sorted)>> \o InsertByIntensity(Tail(sorted), x)
    ELSE <<x>> \o sorted

RECURSIVE SortByIntensity(_)
SortByIntensity(a) ==
    IF a = <<>> THEN <<>>
    ELSE InsertByIntensity(SortByIntensity(SubSeq(a, 1, Len(a) - 1)),
                           a[Len(a)])

\* Heatmap.tsx: data = getHeatmapData(selectedCrime), and sortedData, a
\* sorted copy of it.
Heatmap(selectedCrime) ==
    LET data == getHeatmapData(selectedCrime)
        sortedData == SortByIntensity(data)
    IN  [data |-> data, sortedData |-> sortedData]

-----------------------------------------------------------------------------
(* services/api.ts: the request layer.                                     *)
(*                                                                         *)
(* A promise that has settled is [kind |-> "resolved", value |-> v] or     *)
(* [kind |-> "rejected", value |-> t], t the thrown value.  A thrown value *)
(* is held as [isError, message]: isError says whether it is an instance   *)
(* of Error, message is its message (or its text, if it is no Error).      *)

Resolved(value) == [kind |-> "resolved", value |-> value]

Rejected(thrown) == [kind |-> "rejected", value |-> thrown]

Thrown(isError, message) == [isError |-> isError, message |-> message]

\* new Error(message)
JsError(message) == Thrown(TRUE, message)

\* A response body: text that JSON.parse rejects, or a JSON object, of
\* which the model keeps the property detail (<<>> if the object has no
\* such property, <<d>> if it has it with the string d).
Unparsable == [parses |-> FALSE, detail |-> <<>>]

JsonObject(detail) == [parses |-> TRUE, detail |-> detail]

\* A Response of fetch; ok is true for the statuses 200..299.
Response(status, statusText, body) ==
    [ok |-> (status >= 200 /\ status <= 299),
     status |-> status, statusText |-> statusText, body |-> body]

\* response.json(): the parsed body, or a rejection with a SyntaxError.
json(response) ==
    IF response.body.parses
    THEN Resolved(response.body)
    ELSE Rejected(JsError("Unexpected token < in JSON at position 0"))

\* error.detail || `HTTP ${response.status}: ${response.statusText}`:
\* an absent and an empty detail are both falsy.
DetailOrStatus(error, response) ==
    IF error.detail = <<>> \/ error.detail[1] = ""
    THEN "HTTP " \o ToString(response.status) \o ": " \o response.statusText
    ELSE error.detail[1]

\* Mutant: no test of response.ok, every parsed body is returned.
apiFetchIgnoringStatus(fetched) ==
    IF fetched.kind = "rejected"
    THEN IF fetched.value.isError
         THEN fetched
         ELSE Rejected(JsError("An unknown error occurred"))
    ELSE json(fetched.value)

\* apiFetch, from the point where the promise of fetch has settled as
\* `fetched`: the promise apiFetch returns.
apiFetch(fetched) ==
    LET tried ==
            IF fetched.kind = "rejected"
            THEN fetched
            ELSE LET response == fetched.value
                     parsed == json(response)
                 IN  IF ~response.ok
                     THEN IF parsed.kind = "rejected"
                          THEN parsed
                          ELSE Rejected(JsError(
                                   DetailOrStatus(parsed.value, response)))
                     ELSE parsed
    IN  IF tried.kind = "rejected" /\ ~tried.value.isError
        THEN Rejected(JsError("An unknown error occurred"))
        ELSE tried

\* The argument of fetch: method, URL (without API_BASE_URL) and body.
HttpRequest(method, url, body) ==
    [method |-> method, url |-> url, body |-> body]

\* JSON.stringify(value): the body of a POST
JSONstringify(value) == [json |-> value]

NoBody == [json |-> NULL]

\* new URLSearchParams({...}).toString() encodes each value as
\* application/x-www-form-urlencoded: a space becomes "+", "&" becomes
\* "%26".  Tabulated for the values the model passes.
FormEncode(s) ==
    CASE s = "K&A" -> "K%26A"
      [] s = "Tamil Nadu" -> "Tamil+Nadu"
      [] OTHER -> s

\* An optional argument is <<>> when it is omitted and <<v>> when it is v.
healthCheck == HttpRequest("GET", "/health", NoBody)

getSafetyScore(state, year) ==
    HttpRequest("POST", "/predict/safety",
                JSONstringify([state |-> state, year |-> year]))

simulateSafety(data) ==
    HttpRequest("POST", "/predict/simulate", JSONstringify(data))

getCrimeTrends(state, crime) ==
    HttpRequest("GET",
                "/trends?state=" \o FormEncode(state)
                    \o "&crime=" \o FormEncode(crime),
                NoBody)

\* year ? `?year=${year}` : '': an omitted year and the year 0 are falsy.
getLeaderboard(year) ==
    LET params == IF year = <<>> \/ year[1] = 0
                  THEN ""
                  ELSE "?year=" \o ToString(year[1])
    IN  HttpRequest("GET", "/leaderboard" \o params, NoBody)

ApiFunctions ==
    {"healthCheck", "getSafetyScore", "simulateSafety", "getCrimeTrends",
     "getLeaderboard"}

\* The request the API function f hands to apiFetch for the arguments args.
RequestOf(f, args) ==
    CASE f = "healthCheck" -> healthCheck
      [] f = "getSafetyScore" -> getSafetyScore(args[1], args[2])
      [] f = "simulateSafety" -> simulateSafety(args[1])
      [] f = "getCrimeTrends" -> getCrimeTrends(args[1], args[2])
      [] f = "getLeaderboard" -> getLeaderboard(args)

\* apiFetch calls fetch once, before its first await.
RequestsOfApiFetch(request) == <<request>>

\* Mutant: the catch block calls fetch again.
RequestsOfCatchRetrying(request) == <<request>>

\* The catch blocks of apiFetch and of the hook action rethrow or record
\* the error; neither calls fetch.
RequestsOfCatch(request) == <<>>

-----------------------------------------------------------------------------
(* hooks/useApi.ts: useHealthCheck, useSafetyScore, useSimulation,         *)
(* useCrimeTrends and useLeaderboard have the same shape over their API    *)
(* function.  The error of the hook state is NULL or [message |-> text].   *)

\* useState({data: null, loading: false, error: null})
InitialHookState == [data |-> NULL, loading |-> FALSE, error |-> NULL]

\* setState({data: null, loading: true, error: null}), on entry
HookLoading == [data |-> NULL, loading |-> TRUE, error |-> NULL]

\* Mutant: the catch block keeps loading set.
HookSettledStillLoading(outcome) ==
    IF outcome.kind = "resolved"
    THEN [data |-> outcome.value, loading |-> FALSE, error |-> NULL]
    ELSE [data |-> NULL, loading |-> TRUE,
          error |-> [message |-> outcome.value.message]]

\* Mutant: the try block leaves loading set.
HookSettledTryStillLoading(outcome) ==
    IF outcome.kind = "resolved"
    THEN [data |-> NULL, loading |-> TRUE, error |-> NULL]
    ELSE [data |-> NULL, loading |-> FALSE,
          error |-> [message |-> outcome.value.message]]

\* Mutant: the catch block keeps what was thrown as data.
HookSettledKeepingThrown(outcome) ==
    IF outcome.kind = "resolved"
    THEN [data |-> outcome.value, loading |-> FALSE, error |-> NULL]
    ELSE [data |-> outcome.value, loading |-> FALSE,
          error |-> [message |-> outcome.value.message]]

\* The setState of the hook action once the promise of the API function
\* has settled as `outcome`: that of the try block or that of the catch.
HookSettled(outcome) ==
    IF outcome.kind = "resolved"
    THEN [data |-> outcome.value, loading |-> FALSE, error |-> NULL]
    ELSE [data |-> NULL, loading |-> FALSE,
          error |-> [message |-> IF outcome.value.isError
                                 THEN outcome.value.message
                                 ELSE "Unknown error"]]

\* What the hook action returns: the data, or null from the catch block.
HookReturn(outcome) ==
    IF outcome.kind = "resolved"
    THEN Resolved(outcome.value)
    ELSE Resolved(NULL)

\* Mutant: clearError resets the whole state.
clearErrorStateReset(prev) ==
    [data |-> NULL, loading |-> FALSE, error |-> NULL]

\* setState(prev => ({...prev, error: null}))
clearErrorState(prev) == [prev EXCEPT !.error = NULL]

-----------------------------------------------------------------------------
(* The state machine.                                                      *)

\* The counts a direct caller of simulateSafetyScore passes per category.
SimCounts == {0, 38, 92, 100, 200}

\* The positions the sliders of the Simulation page are moved to (the
\* slider runs from 0 to max = 100 in steps of 1).
SliderValues == {0, 50, 100}

ScoreInputs == (0 - ScoreMargin)..(100 + ScoreMargin)

NoRequest == Request("none", <<>>)

NoReturn == [op |-> "none", args |-> <<>>, outcome |-> "none", value |-> NULL]

Returned(op, args, value) ==
    [op |-> op, args |-> args, outcome |-> "return", value |-> value]

\* Every call of the library with arguments of its parameter types.
Requests ==
    {Request("calculateSafetyScore", <<s, y>>) :
        s \in Range(InitialStates), y \in Range(InitialYears)}
    \cup {Request("simulateSafetyScore", <<v>>) :
        v \in [Range(InitialCrimeTypes) -> SimCounts]}
    \cup {Request("getCrimeTrendData", <<s, c>>) :
        s \in Range(InitialStates), c \in Range(InitialCrimeTypes)}
    \cup {Request("getLeaderboardData", <<>>)}
    \cup {Request("getSafetyRecommendations", <<n>>) : n \in ScoreInputs}
    \cup {Request("getNationalAverageScore", <<>>)}

InitData ==
    /\ INDIAN_STATES = InitialStates
    /\ YEARS = InitialYears
    /\ CRIME_TYPES = InitialCrimeTypes

\* Simulation.tsx: useState(DEFAULT_VALUES), useState(null)
DEFAULT_VALUES == [c \in Range(InitialCrimeTypes) |-> 50]

InitPage ==
    /\ crimeValues = DEFAULT_VALUES
    /\ result = NULL

\* SOSEmergency.tsx: useState(""), useState([]); a phone is held as the
\* sequence of its characters, the empty string as <<>>.
InitSos ==
    /\ userName = ""
    /\ area = ""
    /\ mapsLink = ""
    /\ contacts = <<>>
    /\ newName = ""
    /\ newPhone = <<>>
    /\ now = 0

\* No API function is called outside SpecApi.
InitApiIdle ==
    /\ fn = "none"
    /\ hookState = InitialHookState
    /\ calls = <<>>
    /\ http = <<>>

Init ==
    /\ InitSos
    /\ InitApiIdle
    /\ InitData
    /\ InitPage
    /\ req \in Requests
    /\ ret = NoReturn
    /\ log = <<>>

CallCalculateSafetyScore(state, year) ==
    /\ ret' = Returned("calculateSafetyScore", <<state, year>>,
                       calculateSafetyScore(state, year))
    /\ UNCHANGED <<refdata, page>>

CallSimulateSafetyScore(values) ==
    /\ ret' = Returned("simulateSafetyScore", <<values>>,
                       simulateSafetyScore(values))
    /\ UNCHANGED <<refdata, page>>

CallGetCrimeTrendData(state, crimeType) ==
    /\ ret' = Returned("getCrimeTrendData", <<state, crimeType>>,
                       getCrimeTrendData(state, crimeType))
    /\ UNCHANGED <<refdata, page>>

CallGetLeaderboardData ==
    /\ ret' = Returned("getLeaderboardData", <<>>, getLeaderboardData)
    /\ INDIAN_STATES' = ReceiverAfterMap(INDIAN_STATES)
    /\ UNCHANGED <<YEARS, CRIME_TYPES, page>>

CallGetHeatmapData(crimeType) ==
    /\ ret' = Returned("getHeatmapData", <<crimeType>>,
                       getHeatmapData(crimeType))
    /\ INDIAN_STATES' = ReceiverAfterMap(INDIAN_STATES)
    /\ UNCHANGED <<YEARS, CRIME_TYPES, page>>

\* A render of the Heatmap page with the crime type selectedCrime
RenderHeatmap(selectedCrime) ==
    /\ ret' = Returned("Heatmap", <<selectedCrime>>, Heatmap(selectedCrime))
    /\ INDIAN_STATES' = ReceiverAfterMap(INDIAN_STATES)
    /\ UNCHANGED <<YEARS, CRIME_TYPES, page>>

CallGetSafetyRecommendations(score) ==
    /\ ret' = Returned("getSafetyRecommendations", <<score>>,
                       getSafetyRecommendations(score))
    /\ UNCHANGED <<refdata, page>>

CallGetNationalAverageScore ==
    /\ ret' = Returned("getNationalAverageScore", <<>>, getNationalAverageScore)
    /\ INDIAN_STATES' = ReceiverAfterMap(INDIAN_STATES)
    /\ UNCHANGED <<YEARS, CRIME_TYPES, page>>

\* Simulation.tsx: setCrimeValues((prev) => ({ ...prev, [crime]: value[0] }))
handleSliderChange(crime, value) ==
    /\ crimeValues' = [crimeValues EXCEPT ![crime] = value]
    /\ UNCHANGED <<refdata, req, ret, log, result, api, sos>>

handleSimulate ==
    /\ result' = simulateSafetyScore(crimeValues)
    /\ UNCHANGED <<refdata, req, ret, log, crimeValues, api, sos>>

handleReset ==
    /\ crimeValues' = DEFAULT_VALUES
    /\ result' = NULL
    /\ UNCHANGED <<refdata, req, ret, log, api, sos>>

-----------------------------------------------------------------------------
(* Spec: one call of the library per behaviour, the request drawn by Init. *)

Pending(op) == ret.outcome = "none" /\ req.op = op

DoCalculateSafetyScore ==
    /\ Pending("calculateSafetyScore")
    /\ CallCalculateSafetyScore(req.args[1], req.args[2])
    /\ UNCHANGED <<req, log, api, sos>>

DoSimulateSafetyScore ==
    /\ Pending("simulateSafetyScore")
    /\ CallSimulateSafetyScore(req.args[1])
    /\ UNCHANGED <<req, log, api, sos>>

DoGetCrimeTrendData ==
    /\ Pending("getCrimeTrendData")
    /\ CallGetCrimeTrendData(req.args[1], req.args[2])
    /\ UNCHANGED <<req, log, api, sos>>

DoGetLeaderboardData ==
    /\ Pending("getLeaderboardData")
    /\ CallGetLeaderboardData
    /\ UNCHANGED <<req, log, api, sos>>

DoGetSafetyRecommendations ==
    /\ Pending("getSafetyRecommendations")
    /\ CallGetSafetyRecommendations(req.args[1])
    /\ UNCHANGED <<req, log, api, sos>>

DoGetNationalAverageScore ==
    /\ Pending("getNationalAverageScore")
    /\ CallGetNationalAverageScore
    /\ UNCHANGED <<req, log, api, sos>>

Next ==
    \/ DoCalculateSafetyScore
    \/ DoSimulateSafetyScore
    \/ DoGetCrimeTrendData
    \/ DoGetLeaderboardData
    \/ DoGetSafetyRecommendations
    \/ DoGetNationalAverageScore

Spec == Init /\ [][Next]_vars

-----------------------------------------------------------------------------
(* SpecSession: up to MaxCalls calls of the library, one after the other,  *)
(* each recorded in log.                                                   *)

SessionStates == {"Assam", "Goa"}

SessionYears == {2001, 2021}

SessionCrimeTypes == {"Rape"}

SessionValues == {DEFAULT_VALUES, [c \in Range(InitialCrimeTypes) |-> 100]}

InitSession ==
    /\ InitSos
    /\ InitApiIdle
    /\ InitData
    /\ InitPage
    /\ req = NoRequest
    /\ ret = NoReturn
    /\ log = <<>>

Recorded ==
    /\ Len(log) < MaxCalls
    /\ log' = Append(log, ret')
    /\ UNCHANGED <<req, api, sos>>

SessionCalculateSafetyScore ==
    \E state \in SessionStates, year \in SessionYears :
        CallCalculateSafetyScore(state, year) /\ Recorded

SessionSimulateSafetyScore ==
    \E values \in SessionValues :
        CallSimulateSafetyScore(values) /\ Recorded

SessionGetCrimeTrendData ==
    \E state \in SessionStates, crimeType \in SessionCrimeTypes :
        CallGetCrimeTrendData(state, crimeType) /\ Recorded

SessionGetLeaderboardData == CallGetLeaderboardData /\ Recorded

SessionGetNationalAverageScore == CallGetNationalAverageScore /\ Recorded

SessionGetHeatmapData ==
    \E crimeType \in SessionCrimeTypes :
        CallGetHeatmapData(crimeType) /\ Recorded

SessionRenderHeatmap ==
    \E selectedCrime \in SessionCrimeTypes :
        RenderHeatmap(selectedCrime) /\ Recorded

NextSession ==
    \/ SessionCalculateSafetyScore
    \/ SessionSimulateSafetyScore
    \/ SessionGetCrimeTrendData
    \/ SessionGetLeaderboardData
    \/ SessionGetNationalAverageScore
    \/ SessionGetHeatmapData
    \/ SessionRenderHeatmap

SpecSession == InitSession /\ [][NextSession]_vars

-----------------------------------------------------------------------------
(* SpecUnchecked: one call of calculateSafetyScore or getCrimeTrendData    *)
(* with an argument outside the enumerations.  The parameter types         *)
(* IndianState and CrimeType exist at compile time only; at run time the   *)
(* functions take any string and any number.                               *)

UnknownStates == {"Atlantis"}

UnknownYears == {2000, 2022}

UnknownCrimes == {"XYZ"}

UncheckedRequests ==
    {Request("calculateSafetyScore", <<s, y>>) :
        s \in UnknownStates, y \in Range(InitialYears)}
    \cup {Request("calculateSafetyScore", <<s, y>>) :
        s \in Range(InitialStates), y \in UnknownYears}
    \cup {Request("getCrimeTrendData", <<s, c>>) :
        s \in UnknownStates, c \in Range(InitialCrimeTypes)}
    \cup {Request("getCrimeTrendData", <<s, c>>) :
        s \in Range(InitialStates), c \in UnknownCrimes}

InitUnchecked ==
    /\ InitSos
    /\ InitApiIdle
    /\ InitData
    /\ InitPage
    /\ req \in UncheckedRequests
    /\ ret = NoReturn
    /\ log = <<>>

NextUnchecked ==
    \/ DoCalculateSafetyScore
    \/ DoGetCrimeTrendData

SpecUnchecked == InitUnchecked /\ [][NextUnchecked]_vars

-----------------------------------------------------------------------------
(* SpecPage: the What-If Simulation page.                                  *)

NextPage ==
    \/ \E crime \in Range(CRIME_TYPES), value \in SliderValues :
           handleSliderChange(crime, value)
    \/ handleSimulate
    \/ handleReset

SpecPage == InitSession /\ [][NextPage]_vars

-----------------------------------------------------------------------------
(* SpecApi: calls of one function of services/api.ts, through its hook or  *)
(* directly, which may overlap: a call starts (everything up to the first  *)
(* await, the call of fetch included) and later settles, when the promise  *)
(* of fetch has settled and the rest of apiFetch and of the hook action    *)
(* has run.  At most MaxApiCalls calls are made.                           *)

\* The arguments the calls are made with.
ApiArgs(f) ==
    CASE f = "healthCheck" -> {<<>>}
      [] f = "getSafetyScore" -> {<<"Goa", 2021>>}
      [] f = "simulateSafety" -> {<<[year |-> 2021, rape |-> 50]>>}
      [] f = "getCrimeTrends" -> {<<"Tamil Nadu", "K&A">>}
      [] f = "getLeaderboard" -> {<<>>, <<0>>, <<2021>>}

\* How the promise of fetch settles: a network failure (a TypeError), a
\* rejection with a value that is no Error, or a response.
FetchOutcomes ==
    {Rejected(JsError("Failed to fetch")), Rejected(Thrown(FALSE, "abort"))}
    \cup {Resolved(Response(200, "OK", body)) :
            body \in {Unparsable, JsonObject(<<>>)}}
    \cup {Resolved(Response(404, "Not Found", body)) :
            body \in {Unparsable, JsonObject(<<>>), JsonObject(<<"">>),
                      JsonObject(<<"State not found">>)}}

NoOutcome == [kind |-> "none", value |-> NULL]

\* A call in flight: made through the hook or directly, with its arguments.
Call(via, args) ==
    [via |-> via, args |-> args, pc |-> "pending",
     fetched |-> NoOutcome, result |-> NoOutcome]

\* The requests the call id hands to fetch, as entries of http.
Issued(id, requests) ==
    [k \in 1..Len(requests) |-> [call |-> id, request |-> requests[k]]]

InitApi ==
    /\ InitSos
    /\ InitData
    /\ InitPage
    /\ req = NoRequest
    /\ ret = NoReturn
    /\ log = <<>>
    /\ fn \in ApiFunctions
    /\ hookState = InitialHookState
    /\ calls = <<>>
    /\ http = <<>>

CallStarts(via, args) ==
    /\ Len(calls) < MaxApiCalls
    /\ calls' = Append(calls, Call(via, args))
    /\ http' = http \o Issued(Len(calls) + 1,
                              RequestsOfApiFetch(RequestOf(fn, args)))
    /\ UNCHANGED <<refdata, page, req, ret, log, fn, sos>>

CallSettles(i, fetched, returned) ==
    /\ calls[i].pc = "pending"
    /\ calls' = [calls EXCEPT ![i] =
                    [@ EXCEPT !.pc = "settled", !.fetched = fetched,
                              !.result = returned]]
    /\ http' = http \o Issued(i,
                   IF apiFetch(fetched).kind = "rejected"
                   THEN RequestsOfCatch(RequestOf(fn, calls[i].args))
                   ELSE <<>>)
    /\ UNCHANGED <<refdata, page, req, ret, log, fn, sos>>

\* check, checkSafety, simulate, fetchTrends, fetchLeaderboard: entry
HookCallStarts(args) ==
    /\ CallStarts("hook", args)
    /\ hookState' = HookLoading

\* ... and the continuation after `await`
HookCallSettles(i, fetched) ==
    /\ calls[i].via = "hook"
    /\ CallSettles(i, fetched, HookReturn(apiFetch(fetched)))
    /\ hookState' = HookSettled(apiFetch(fetched))

\* healthCheck, getSafetyScore, simulateSafety, getCrimeTrends,
\* getLeaderboard called without a hook
ApiCallStarts(args) ==
    /\ CallStarts("direct", args)
    /\ UNCHANGED hookState

ApiCallSettles(i, fetched) ==
    /\ calls[i].via = "direct"
    /\ CallSettles(i, fetched, apiFetch(fetched))
    /\ UNCHANGED hookState

clearError ==
    /\ hookState' = clearErrorState(hookState)
    /\ UNCHANGED <<refdata, page, req, ret, log, fn, calls, http, sos>>

NextApi ==
    \/ \E args \in ApiArgs(fn) : HookCallStarts(args)
    \/ \E i \in DOMAIN calls, fetched \in FetchOutcomes :
           HookCallSettles(i, fetched)
    \/ \E args \in ApiArgs(fn) : ApiCallStarts(args)
    \/ \E i \in DOMAIN calls, fetched \in FetchOutcomes :
           ApiCallSettles(i, fetched)
    \/ clearError

SpecApi == InitApi /\ [][NextApi]_vars

\* SpecApiFair: SpecApi for the hooks useHealthCheck and useSimulation,
\* with every request handed to fetch settling eventually.
InitApiFair ==
    /\ InitApi
    /\ fn \in {"healthCheck", "simulateSafety"}

RequestSettles(i) ==
    /\ i \in DOMAIN calls
    /\ \E fetched \in FetchOutcomes :
           HookCallSettles(i, fetched) \/ ApiCallSettles(i, fetched)

SpecApiFair ==
    /\ InitApiFair
    /\ [][NextApi]_vars
    /\ \A i \in 1..MaxApiCalls : WF_vars(RequestSettles(i))

-----------------------------------------------------------------------------
(* SpecSos: the SOS Emergency page (pages/SOSEmergency.tsx).               *)
(*                                                                         *)
(* The text fields are strings, except the phone numbers, which are held   *)
(* as the sequence of their characters so that replace(/\D/g, "") is       *)
(* computed character by character.  The page is rendered anew after       *)
(* every state change: what it shows is a function of the state.           *)

\* The values typed into the fields.
SosUserNames == {"", "Meena"}

SosAreas == {"", "Sector 15"}

SosMapsLinks == {"", "https://maps.example/?q=1"}

SosNames == {"", "Asha"}

SosPhones == {<<>>, <<"+", "9", "1", " ", "7">>, <<"0", "4", "-", "2">>}

\* Mutant: only the name is required.
addContactGuardNameOnly(name, phone) == name # ""

\* if (newName && newPhone): both strings are non-empty
addContactGuard(name, phone) == name # "" /\ phone # <<>>

\* { id: Date.now().toString(), name: newName, phone: newPhone,
\*   selected: true }, t being the value of Date.now()
NewContact(t, name, phone) ==
    [id |-> ToString(t), name |-> name, phone |-> phone, selected |-> TRUE]

\* contacts.map(c => c.id === id ? { ...c, selected: !c.selected } : c)
ToggledContacts(list, id) ==
    [i \in 1..Len(list) |->
        IF list[i].id = id
        THEN [list[i] EXCEPT !.selected = ~list[i].selected]
        ELSE list[i]]

\* contacts.filter(c => c.id !== id)
RemainingContacts(list, id) == SelectSeq(list, LAMBDA c : c.id # id)

\* generateMessage: the fixed text of the alert is left out, the message is
\* held as its three interpolated parts: userName || "someone",
\* area || "Unknown", and the maps line, present only if mapsLink is
\* non-empty (<<mapsLink>>, otherwise <<>>).
generateMessage ==
    [name |-> IF userName = "" THEN "someone" ELSE userName,
     location |-> IF area = "" THEN "Unknown" ELSE area,
     maps |-> IF mapsLink = "" THEN <<>> ELSE <<mapsLink>>]

\* encodeURIComponent, tabulated for the texts of the model: a space
\* becomes %20, ":" %3A, "/" %2F, "?" %3F and "=" %3D; letters, digits and
\* "." stay.
encodeURIComponent(s) ==
    CASE s = "Sector 15" -> "Sector%2015"
      [] s = "https://maps.example/?q=1"
            -> "https%3A%2F%2Fmaps.example%2F%3Fq%3D1"
      [] OTHER -> s

Digits == {"0", "1", "2", "3", "4", "5", "6", "7", "8", "9"}

\* Mutant: the leading "+" is kept.
CleanPhoneKeepingPlus(phone) ==
    SelectSeq(phone, LAMBDA ch : ch \in Digits \cup {"+"})

\* phone.replace(/\D/g, "")
CleanPhone(phone) == SelectSeq(phone, LAMBDA ch : ch \in Digits)

\* `https://wa.me/${cleanPhone}?text=${encodeURIComponent(generateMessage())}`
getWhatsAppLink(phone) ==
    LET message == generateMessage
    IN  [host |-> "https://wa.me/",
         cleanPhone |-> CleanPhone(phone),
         text |-> [name |-> encodeURIComponent(message.name),
                   location |-> encodeURIComponent(message.location),
                   maps |-> [k \in 1..Len(message.maps) |->
                                encodeURIComponent(message.maps[k])]]]

\* Mutant: the links are built for every contact.
selectedContactsAll == contacts

\* contacts.filter(c => c.selected)
selectedContacts == SelectSeq(contacts, LAMBDA c : c.selected)

\* The "Generate SOS" card: one link per selected contact, keyed by its id.
SosLinks ==
    [k \in 1..Len(selectedContacts) |->
        [key |-> selectedContacts[k].id,
         name |-> selectedContacts[k].name,
         href |-> getWhatsAppLink(selectedContacts[k].phone)]]

SosFrame == UNCHANGED <<refdata, page, req, ret, log, api>>

setUserName(value) ==
    /\ userName' = value
    /\ UNCHANGED <<area, mapsLink, contacts, newName, newPhone, now>>
    /\ SosFrame

setArea(value) ==
    /\ area' = value
    /\ UNCHANGED <<userName, mapsLink, contacts, newName, newPhone, now>>
    /\ SosFrame

setMapsLink(value) ==
    /\ mapsLink' = value
    /\ UNCHANGED <<userName, area, contacts, newName, newPhone, now>>
    /\ SosFrame

setNewName(value) ==
    /\ newName' = value
    /\ UNCHANGED <<userName, area, mapsLink, contacts, newPhone, now>>
    /\ SosFrame

setNewPhone(value) ==
    /\ newPhone' = value
    /\ UNCHANGED <<userName, area, mapsLink, contacts, newName, now>>
    /\ SosFrame

\* addContact; Date.now() is read only if the guard holds and returns t,
\* the value it returned last or a later one.
addContact(t) ==
    /\ IF addContactGuard(newName, newPhone)
       THEN /\ Len(contacts) < MaxContacts
            /\ t \in now..(now + 1)
            /\ t <= MaxContacts
            /\ now' = t
            /\ contacts' = Append(contacts, NewContact(t, newName, newPhone))
            /\ newName' = ""
            /\ newPhone' = <<>>
       ELSE UNCHANGED <<contacts, newName, newPhone, now>>
    /\ UNCHANGED <<userName, area, mapsLink>>
    /\ SosFrame

toggleContact(id) ==
    /\ contacts' = ToggledContacts(contacts, id)
    /\ UNCHANGED <<userName, area, mapsLink, newName, newPhone, now>>
    /\ SosFrame

removeContact(id) ==
    /\ contacts' = RemainingContacts(contacts, id)
    /\ UNCHANGED <<userName, area, mapsLink, newName, newPhone, now>>
    /\ SosFrame

\* The checkbox and the remove button of a row pass the id of that row.
NextSos ==
    \/ \E value \in SosUserNames : setUserName(value)
    \/ \E value \in SosAreas : setArea(value)
    \/ \E value \in SosMapsLinks : setMapsLink(value)
    \/ \E value \in SosNames : setNewName(value)
    \/ \E value \in SosPhones : setNewPhone(value)
    \/ \E t \in now..(now + 1) : addContact(t)
    \/ \E i \in DOMAIN contacts : toggleContact(contacts[i].id)
    \/ \E i \in DOMAIN contacts : removeContact(contacts[i].id)

SpecSos == InitSession /\ [][NextSos]_vars

-----------------------------------------------------------------------------
(* Properties.                                                             *)

\* The documented risk levels (QUICK_REFERENCE.md, "Risk Levels"):
\* High below 40, Medium from 40 to 69, Low from 70.
RiskBucket(score) ==
    IF score < 40 THEN "High" ELSE IF score < 70 THEN "Medium" ELSE "Low"

Done(op) == ret.outcome = "return" /\ ret.op = op

\* The score a returned classification is about.
ClassifiedScore ==
    IF ret.op = "getSafetyRecommendations" THEN ret.args[1] ELSE ret.value.score

Classifiers ==
    {"calculateSafetyScore", "simulateSafetyScore",
     "getSafetyRecommendations", "getNationalAverageScore"}

\* C1: every function that classifies a score (calculateSafetyScore,
\* simulateSafetyScore, getSafetyRecommendations, getNationalAverageScore)
\* returns the documented bucket of that score: High below 40, Medium from
\* 40 to 69, Low from 70.
C1_RiskLevelIsBucket ==
    (ret.outcome = "return" /\ ret.op \in Classifiers)
        => ret.value.riskLevel = RiskBucket(ClassifiedScore)

\* C1, witness: a simulated score on the boundary 40 was classified Medium.
C1_Witness ==
    /\ Done("simulateSafetyScore")
    /\ ret.value.score = 40
    /\ ret.value.riskLevel = "Medium"

\* C2: for every state of the enumeration and every year of the dataset,
\* calculateSafetyScore returns a score within 0..100 and the risk level
\* that is the documented bucket of that score.
C2_LookupInRangeAndConsistent ==
    Done("calculateSafetyScore")
        => /\ ret.args[1] \in Range(INDIAN_STATES)
           /\ ret.args[2] \in Range(YEARS)
           /\ ret.value.score \in 0..100
           /\ ret.value.riskLevel = RiskBucket(ret.value.score)

\* C2, witness: the lookup of the last state of the enumeration for the last
\* year of the dataset has returned.
C2_Witness ==
    /\ Done("calculateSafetyScore")
    /\ ret.args = <<"Delhi", 2021>>
    /\ ret.value.score \in 0..100

\* C3: simulateSafetyScore returns a score within 0..100 for every vector of
\* non-negative counts, whatever their magnitude.
C3_SimulatedScoreClamped ==
    Done("simulateSafetyScore") => ret.value.score \in 0..100

AllZero(values) == \A c \in DOMAIN values : values[c] = 0

\* C4: a simulation whose counts are all zero is rejected with InvalidInput
\* and yields no score.
C4_AllZeroRejected ==
    (ret.op = "simulateSafetyScore" /\ ret.outcome # "none" /\ AllZero(ret.args[1]))
        => ret.outcome = "InvalidInput"

SameCall(a, b) == a.op = b.op /\ a.args = b.args

Ascending(board) ==
    \A i \in 1..(Len(board) - 1) : board[i].score <= board[i + 1].score

\* C6: the leaderboard is sorted ascending by score: of two adjacent entries
\* the earlier one's score is at most the later one's.
C6_LeaderboardAscending ==
    Done("getLeaderboardData") => Ascending(ret.value)

\* C6, witness: a leaderboard with two entries of different scores.
C6_Witness ==
    /\ Done("getLeaderboardData")
    /\ \E i, j \in DOMAIN ret.value : ret.value[i].score < ret.value[j].score

\* The position of a state in the enumeration.
IndexOfState(state) ==
    CHOOSE i \in DOMAIN INDIAN_STATES : INDIAN_STATES[i] = state

\* C7: two states of equal score stand in the leaderboard in their order of
\* INDIAN_STATES.
C7_TiesKeepEnumerationOrder ==
    Done("getLeaderboardData")
        => \A i, j \in DOMAIN ret.value :
               (i < j /\ ret.value[i].score = ret.value[j].score)
                   => IndexOfState(ret.value[i].state) < IndexOfState(ret.value[j].state)

\* C7, witness: a leaderboard with two entries of equal score whose names
\* are not in alphabetical order.
C7_Witness ==
    /\ Done("getLeaderboardData")
    /\ \E i \in 1..(Len(ret.value) - 1) :
           /\ ret.value[i].score = ret.value[i + 1].score
           /\ ret.value[i].state = "Bihar"
           /\ ret.value[i + 1].state = "Delhi"

EntriesOf(board, state) == {i \in DOMAIN board : board[i].state = state}

\* C8, as claimed: every state of the enumeration appears exactly once in
\* the leaderboard.
C8_EveryStateRanked ==
    Done("getLeaderboardData")
        => \A state \in Range(INDIAN_STATES) :
               Cardinality(EntriesOf(ret.value, state)) = 1

\* C8, amended: the leaderboard scores every state of the enumeration for
\* 2021 and returns the ten of lowest score (all of them when there are
\* fewer than ten): every entry is a state of the enumeration with its
\* score, no state appears twice, the ranks are 1, 2, ... and every state
\* left out scores at least as much as every state listed.
C8_TenLowestRanked ==
    Done("getLeaderboardData")
        => /\ Len(ret.value) = Min(10, Len(INDIAN_STATES))
           /\ \A i \in DOMAIN ret.value :
                  /\ ret.value[i].state \in Range(INDIAN_STATES)
                  /\ ret.value[i].score
                         = calculateSafetyScore(ret.value[i].state, 2021).score
                  /\ ret.value[i].rank = i
                  /\ Cardinality(EntriesOf(ret.value, ret.value[i].state)) = 1
           /\ \A state \in Range(INDIAN_STATES) :
                  EntriesOf(ret.value, state) = {}
                      => \A i \in DOMAIN ret.value :
                             ret.value[i].score
                                 <= calculateSafetyScore(state, 2021).score

\* C8, witness: a leaderboard of ten entries that leaves a state out.
C8_Witness ==
    /\ Done("getLeaderboardData")
    /\ Len(ret.value) = 10
    /\ \E state \in Range(INDIAN_STATES) : EntriesOf(ret.value, state) = {}

\* C9: the trend series of every state and crime type has one point per
\* year of the dataset, 21 points covering 2001 to 2021, in strictly
\* ascending order of the year.
C9_TrendCoversYears ==
    Done("getCrimeTrendData")
        => /\ Len(ret.value) = 21
           /\ {ret.value[i].year : i \in DOMAIN ret.value} = 2001..2021
           /\ \A i \in 1..(Len(ret.value) - 1) :
                  ret.value[i].year < ret.value[i + 1].year

\* C9, witness: the series of Andhra Pradesh and Rape runs from 2001 to 2021.
C9_Witness ==
    /\ Done("getCrimeTrendData")
    /\ ret.args = <<"Andhra Pradesh", "Rape">>
    /\ ret.value[1].year = 2001
    /\ ret.value[Len(ret.value)].year = 2021

\* a is the integer nearest to n / 3
NearestToThird(a, n) == 3 * a - n \in {-1, 0, 1}

\* C10: the first two points of a trend series carry no movingAvg, and the
\* movingAvg of every later point is the mean of the counts of that point
\* and the two before it, rounded to the nearest integer.
C10_MovingAverage ==
    Done("getCrimeTrendData")
        => \A i \in DOMAIN ret.value :
               IF i <= 2
               THEN "movingAvg" \notin DOMAIN ret.value[i]
               ELSE /\ "movingAvg" \in DOMAIN ret.value[i]
                    /\ NearestToThird(ret.value[i].movingAvg,
                                      ret.value[i].count + ret.value[i - 1].count
                                      + ret.value[i - 2].count)

\* C10, witness: a series whose third point has a moving average that is
\* not the exact mean (the three counts do not add up to a multiple of 3).
C10_Witness ==
    /\ Done("getCrimeTrendData")
    /\ Len(ret.value) >= 3
    /\ "movingAvg" \in DOMAIN ret.value[3]
    /\ (ret.value[3].count + ret.value[2].count + ret.value[1].count) % 3 = 2

\* services/api.ts, CRIME_TYPES: the seven crime codes and their names.
ApiCrimeTypes ==
    [code \in {"Rape", "K&A", "DD", "AoW", "AoM", "DV", "WT"} |->
        CASE code = "Rape" -> "Rape"
          [] code = "K&A" -> "Kidnapping & Abduction"
          [] code = "DD" -> "Dowry Deaths"
          [] code = "AoW" -> "Assault on Women"
          [] code = "AoM" -> "Assault on Minors"
          [] code = "DV" -> "Domestic Violence"
          [] code = "WT" -> "Women Trafficking"]

\* A crime selection is recognized under its code or its full name.
RecognizedCrimes == DOMAIN ApiCrimeTypes \cup Range(ApiCrimeTypes)

Called(op) == ret.outcome # "none" /\ ret.op = op

\* C11: a trend query with a crime code that is none of the seven
\* recognized codes fails with InvalidInput, one with a state outside the
\* enumeration fails with NotFound; neither returns a series.
C11_TrendRejectsUnknown ==
    Called("getCrimeTrendData")
        => /\ ret.args[2] \notin RecognizedCrimes
                  => ret.outcome = "InvalidInput"
           /\ (ret.args[2] \in RecognizedCrimes
                  /\ ret.args[1] \notin Range(INDIAN_STATES))
                  => ret.outcome = "NotFound"

\* C12: a safety-score lookup for a state outside the enumeration or a year
\* outside the dataset fails with NotFound and returns no score.
C12_LookupRejectsUnknown ==
    (Called("calculateSafetyScore")
        /\ (ret.args[1] \notin Range(INDIAN_STATES)
               \/ ret.args[2] \notin Range(YEARS)))
        => ret.outcome = "NotFound"

Settled(i) == calls[i].pc = "settled"

\* The request of call i succeeded: a response came, its status is 2xx and
\* its body is JSON.
Succeeded(c) ==
    /\ c.fetched.kind = "resolved"
    /\ c.fetched.value.ok
    /\ c.fetched.value.body.parses

\* The message documented for a non-2xx response with a JSON body.
DocumentedMessage(response) ==
    IF response.body.detail \in {<<>>, <<"">>}
    THEN "HTTP " \o ToString(response.status) \o ": " \o response.statusText
    ELSE response.body.detail[1]

C14_HookCallCompletes ==
    [][\A i \in DOMAIN calls :
          (calls[i].via = "hook" /\ calls[i].pc = "pending"
               /\ calls'[i].pc = "settled") =>
              LET c == calls'[i]
              IN  /\ c.result.kind = "resolved"
                  /\ IF Succeeded(c)
                     THEN /\ c.result.value = c.fetched.value.body
                          /\ hookState' = [data |-> c.fetched.value.body,
                                           loading |-> FALSE,
                                           error |-> NULL]
                     ELSE /\ c.result.value = NULL
                          /\ hookState'.data = NULL
                          /\ hookState'.loading = FALSE
                          /\ hookState'.error # NULL]_vars

\* Two calls through the hook have completed, one succeeded and then one
\* failed; the hook holds the error of the second.
C14_Witness ==
    /\ Len(calls) = 2
    /\ \A i \in DOMAIN calls : calls[i].via = "hook" /\ Settled(i)
    /\ Succeeded(calls[1])
    /\ calls[1].result = Resolved(JsonObject(<<>>))
    /\ ~Succeeded(calls[2])
    /\ calls[2].result = Resolved(NULL)
    /\ hookState = [data |-> NULL, loading |-> FALSE,
                    error |-> [message |-> "Failed to fetch"]]

\* C15: loading is true exactly when some request issued through the hook
\* has not settled, overlapping calls included.
C15_LoadingIffInFlight ==
    hookState.loading
        <=> \E i \in DOMAIN calls :
                calls[i].via = "hook" /\ calls[i].pc = "pending"

RequestsOfCall(i) == {k \in DOMAIN http : http[k].call = i}

\* C16: every call of an API function, made directly or through its hook,
\* in flight or settled, has handed exactly one request to fetch: a failed
\* request is not issued again.
C16_OneRequestPerCall ==
    /\ \A i \in DOMAIN calls :
           /\ Cardinality(RequestsOfCall(i)) = 1
           /\ \A k \in RequestsOfCall(i) :
                  http[k].request = RequestOf(fn, calls[i].args)
    /\ \A k \in DOMAIN http : http[k].call \in DOMAIN calls

\* A call through the hook and a direct call have both failed.
C16_Witness ==
    \E i, j \in DOMAIN calls :
        /\ calls[i].via = "hook" /\ Settled(i) /\ ~Succeeded(calls[i])
        /\ calls[j].via = "direct" /\ Settled(j) /\ ~Succeeded(calls[j])
        /\ Len(http) = 2

\* C18: getLeaderboard requests /leaderboard?year=<year> for every supplied
\* year, 0 included, and /leaderboard without a query only when no year is
\* supplied.
C18_YearFilterSent ==
    fn = "getLeaderboard" =>
        \A k \in DOMAIN http :
            LET args == calls[http[k].call].args
            IN  http[k].request.url =
                    IF args = <<>>
                    THEN "/leaderboard"
                    ELSE "/leaderboard?year=" \o ToString(args[1])

\* C17: after any sequence of calls of the library functions and of
\* renders of the Heatmap page, INDIAN_STATES, YEARS and CRIME_TYPES have
\* the contents and the order they had initially.
C17_ReferenceDataUnchanged ==
    /\ INDIAN_STATES = InitialStates
    /\ YEARS = InitialYears
    /\ CRIME_TYPES = InitialCrimeTypes

\* A session of a leaderboard call, a heatmap call and a Heatmap render.
C17_Witness ==
    /\ Len(log) = 3
    /\ \E i \in DOMAIN log : log[i].op = "getLeaderboardData"
    /\ \E i \in DOMAIN log : log[i].op = "getHeatmapData"
    /\ log[3].op = "Heatmap"
    /\ log[3].value.sortedData # log[3].value.data

\* services/api.ts, AVAILABLE_STATES
AVAILABLE_STATES ==
    <<"Andhra Pradesh", "Arunachal Pradesh", "Assam", "Bihar",
      "Chhattisgarh", "Delhi", "Goa", "Gujarat", "Haryana",
      "Himachal Pradesh", "Jammu & Kashmir", "Jharkhand", "Karnataka",
      "Kerala", "Madhya Pradesh", "Maharashtra", "Manipur", "Meghalaya",
      "Mizoram", "Nagaland", "Odisha", "Punjab", "Rajasthan", "Sikkim",
      "Tamil Nadu", "Telangana", "Tripura", "Uttar Pradesh", "Uttarakhand",
      "West Bengal">>

Distinct(a) == \A i, j \in DOMAIN a : a[i] = a[j] => i = j

\* C19: the state enumeration has 30 pairwise distinct names, and
\* INDIAN_STATES names the same set of states as AVAILABLE_STATES.
C19_SameThirtyStates ==
    /\ Len(INDIAN_STATES) = 30
    /\ Distinct(INDIAN_STATES)
    /\ Len(AVAILABLE_STATES) = 30
    /\ Distinct(AVAILABLE_STATES)
    /\ Range(INDIAN_STATES) = Range(AVAILABLE_STATES)

\* C20: the crime categories are exactly the seven of the API layer: the
\* trend selection (CRIME_TYPES) offers the seven, and the simulated score
\* has a weight for each of the seven and for nothing else.
C20_SevenCategories ==
    /\ Cardinality(DOMAIN ApiCrimeTypes) = 7
    /\ Range(CRIME_TYPES) = Range(ApiCrimeTypes)
    /\ DOMAIN weights = Range(ApiCrimeTypes)

\* What the hook shows for a completed call c: its data and no error, or
\* no data and its error (which clearError may have removed since).
Reflects(c) ==
    IF Succeeded(c)
    THEN hookState.data = c.fetched.value.body /\ hookState.error = NULL
    ELSE /\ hookState.data = NULL
         /\ hookState.error
                \in {NULL, [message |-> apiFetch(c.fetched).value.message]}

HookCalls == {i \in DOMAIN calls : calls[i].via = "hook"}

LastHookCall == CHOOSE i \in HookCalls : \A j \in HookCalls : j <= i

\* C21: once the calls made through the hook have all settled, the hook's
\* data and error are those of the call issued last, in whatever order the
\* responses arrived.
C21_LastIssuedWins ==
    (Cardinality(HookCalls) >= 2 /\ \A i \in HookCalls : Settled(i))
        => Reflects(calls[LastHookCall])

\* C22: data and error are never both non-null, and while loading is true
\* both are null.
C22_DataErrorExclusive ==
    /\ hookState.data = NULL \/ hookState.error = NULL
    /\ hookState.loading
           => (hookState.data = NULL /\ hookState.error = NULL)

\* A call through the hook has delivered data and a later one is in
\* flight: loading is true and the data of the first is gone.
C22_Witness ==
    \E i, j \in HookCalls :
        /\ i < j
        /\ Settled(i) /\ Succeeded(calls[i])
        /\ calls[i].result.value # NULL
        /\ calls[j].pc = "pending"
        /\ hookState.loading

\* C23: if every request settles eventually, a hook that is loading
\* eventually is not, and once loading is false it becomes true only in a
\* step that issues a new call through the hook.
C23_LoadingEnds ==
    /\ (hookState.loading ~> ~hookState.loading)
    /\ [][(~hookState.loading /\ hookState'.loading)
             => /\ Len(calls') = Len(calls) + 1
                /\ calls'[Len(calls')].via = "hook"]_vars

\* Two calls through the hook have been made, the second while the first
\* was in flight or after it; both have settled and loading is false.
C23_Witness ==
    /\ Cardinality(HookCalls) = 2
    /\ \A i \in HookCalls : Settled(i)
    /\ ~hookState.loading

\* C24: a clearError step leaves error null and data and loading as they
\* were, also while a request is in flight.
C24_ClearErrorOnlyError ==
    [][clearError
          => /\ hookState'.error = NULL
             /\ hookState'.data = hookState.data
             /\ hookState'.loading = hookState.loading]_vars

\* Two calls through the hook overlapped, the first has failed and the
\* second is still in flight; the error of the first has been cleared.
C24_Witness ==
    /\ Len(calls) = 2
    /\ HookCalls = {1, 2}
    /\ Settled(1) /\ ~Succeeded(calls[1])
    /\ calls[2].pc = "pending"
    /\ hookState = [data |-> NULL, loading |-> FALSE, error |-> NULL]

\* C25: addContact with an empty name or an empty phone leaves the contact
\* list and both input fields as they are; otherwise it appends exactly one
\* contact, with the entered name and phone and selected, at the end of the
\* list, leaves the contacts before it unchanged and in order, and empties
\* both input fields.
C25_AddContactGuarded ==
    [][\A t \in now..(now + 1) :
          addContact(t) =>
              IF newName = "" \/ newPhone = <<>>
              THEN UNCHANGED <<contacts, newName, newPhone>>
              ELSE /\ Len(contacts') = Len(contacts) + 1
                   /\ SubSeq(contacts', 1, Len(contacts)) = contacts
                   /\ contacts'[Len(contacts')].name = newName
                   /\ contacts'[Len(contacts')].phone = newPhone
                   /\ contacts'[Len(contacts')].selected
                   /\ newName' = ""
                   /\ newPhone' = <<>>]_vars

\* A second contact has been added behind a deselected first one, and the
\* input fields are empty again.
C25_Witness ==
    /\ Len(contacts) = 2
    /\ ~contacts[1].selected
    /\ contacts[2].name = "Asha"
    /\ contacts[2].phone = <<"0", "4", "-", "2">>
    /\ contacts[2].selected
    /\ newName = ""
    /\ newPhone = <<>>

\* C26: the ids of the contacts in the list are pairwise distinct (so that
\* toggleContact(id) and removeContact(id) act on exactly one contact),
\* also when two contacts are added at the same clock value.
C26_ContactIdsDistinct ==
    \A i, j \in DOMAIN contacts : contacts[i].id = contacts[j].id => i = j

\* The positions of the selected contacts, and the rank of one among them.
SelectedPositions == {i \in DOMAIN contacts : contacts[i].selected}

RankOfSelected(i) == Cardinality({j \in SelectedPositions : j <= i})

\* The digits of the phone numbers of the model.
DigitsOfPhone(phone) ==
    CASE phone = <<"+", "9", "1", " ", "7">> -> <<"9", "1", "7">>
      [] phone = <<"0", "4", "-", "2">> -> <<"0", "4", "2">>

\* The message of the current field values, URI-encoded.
EncodedMessage ==
    [name |-> IF userName = "" THEN "someone" ELSE "Meena",
     location |-> IF area = "" THEN "Unknown" ELSE "Sector%2015",
     maps |-> IF mapsLink = "" THEN <<>>
              ELSE <<"https%3A%2F%2Fmaps.example%2F%3Fq%3D1">>]

\* C27: the page offers one WhatsApp link per contact of the list that is
\* selected, in list order, and no other link; each link targets the
\* digits of that contact's phone, with the message of the current field
\* values as text.
C27_LinksForSelected ==
    /\ Len(SosLinks) = Cardinality(SelectedPositions)
    /\ \A i \in SelectedPositions :
           LET link == SosLinks[RankOfSelected(i)]
           IN  /\ link.key = contacts[i].id
               /\ link.name = contacts[i].name
               /\ link.href.host = "https://wa.me/"
               /\ link.href.cleanPhone = DigitsOfPhone(contacts[i].phone)
               /\ link.href.text = EncodedMessage

\* Of two contacts the first has been deselected; the name, the area and
\* the maps link are filled in.
C27_Witness ==
    /\ Len(contacts) = 2
    /\ ~contacts[1].selected
    /\ contacts[2].selected
    /\ contacts[2].phone = <<"+", "9", "1", " ", "7">>
    /\ userName = "Meena"
    /\ area = "Sector 15"
    /\ mapsLink # ""
    /\ Len(SosLinks) = 1

\* C28: a displayed (non-null) result of the Simulation page is
\* simulateSafetyScore of the current slider values.
C28_ResultOfCurrentSliders ==
    result # NULL => result = simulateSafetyScore(crimeValues)

\* 40 + ((name length * year) mod 50) + 0.5 * (year - 2001), a half
\* rounded up.
DocumentedScore(state, year) ==
    40 + ((Len(state) * year) % 50) + ((year - 2001) + 1) \div 2

\* C29: for every state of INDIAN_STATES and every year of 2001..2021 the
\* lookup yields the documented score, which lies in 40..99, and never the
\* risk level High; the leaderboard and the national average have no High
\* entry either.
C29_LookupNeverHigh ==
    /\ Done("calculateSafetyScore")
           => /\ ret.value.score = DocumentedScore(ret.args[1], ret.args[2])
              /\ ret.value.score >= 40 /\ ret.value.score <= 99
              /\ ret.value.riskLevel # "High"
    /\ Done("getLeaderboardData")
           => \A i \in DOMAIN ret.value :
                  /\ ret.value[i].riskLevel # "High"
                  /\ ret.value[i].score >= 40 /\ ret.value[i].score <= 99
    /\ Done("getNationalAverageScore") => ret.value.riskLevel # "High"

\* The highest score of the table, reached through a half rounded up:
\* 40 + ((11 * 2018) mod 50) + 8.5 = 96.5, rounded to 97, risk level Low.
C29_Witness ==
    /\ Done("calculateSafetyScore")
    /\ ret.args = <<"Maharashtra", 2018>>
    /\ ret.value = [score |-> 97, riskLevel |-> "Low"]

====
